---- MODULE Spec2Model ----
(***************************************************************************)
(* A model of image-parser-rs: the PPM (P6) decoder of src/src/ppm.rs and  *)
(* the Image / Pixel data model of src/src/image.rs.                       *)
(*                                                                         *)
(* Bytes are the integers 0..255, a buffer is a sequence of bytes.  The    *)
(* code indexes slices from 0; the operators below keep the code's 0-based *)
(* indices and read a slice through At.                                    *)
(***************************************************************************)
EXTENDS Integers, Sequences, FiniteSets, TLC

(***************************************************************************)
(* Machine integers.  usize is the pointer-sized unsigned integer of the   *)
(* target; the model takes a 16-bit target so that usize::MAX and the      *)
(* products the code guards against stay inside TLC's integers.            *)
(***************************************************************************)
UsizeBits == 16

USIZE_MAX == 2^UsizeBits - 1

ISIZE_MAX == 2^(UsizeBits - 1) - 1

U16_MAX == 2^16 - 1

U8_MAX == 2^8 - 1

\* Option<T>
None == [some |-> FALSE, val |-> 0]

Some(v) == [some |-> TRUE, val |-> v]

\* Faulty variant of checked_mul: the product saturates at usize::MAX
saturating_mul(a, b) ==
    IF a /= 0 /\ b > USIZE_MAX \div a THEN [some |-> TRUE, val |-> USIZE_MAX]
    ELSE [some |-> TRUE, val |-> a * b]

\* usize::checked_mul: None when the product does not fit usize.  The test
\* divides instead of multiplying, the product itself is formed only when it fits.
checked_mul(a, b) ==
    IF a /= 0 /\ b > USIZE_MAX \div a THEN None ELSE Some(a * b)

\* slice[i], i counted from 0
At(slice, i) == slice[i + 1]

\* &slice[from..]
SliceFrom(slice, from) == SubSeq(slice, from + 1, Len(slice))

\* &slice[from..to]
SliceRange(slice, from, to) == SubSeq(slice, from + 1, to)

(***************************************************************************)
(* Tokenizer                                                               *)
(***************************************************************************)
HASH == 35

NEWLINE == 10

\* (elem as char).is_whitespace(): the byte is widened to the code point of
\* the same value and tested for the Unicode White_Space property, which in
\* U+0000..U+00FF holds of U+0009..U+000D, U+0020, U+0085 and U+00A0.
is_whitespace(elem) == elem \in (9 .. 13) \cup {32, 133, 160}

\* a byte value
Byte == 0 .. 255

\* the closures given to find_index, each as the set of bytes it holds of:
\* |elem| !(elem as char).is_whitespace()
NotWhitespace == {elem \in Byte : ~is_whitespace(elem)}

\* |elem| (elem as char).is_whitespace()
Whitespace == {elem \in Byte : is_whitespace(elem)}

\* |elem| elem == b'\n'
Newline == {NEWLINE}

\* |elem| (elem as char).is_whitespace() || elem == b'#'
WhitespaceOrHash == {elem \in Byte : is_whitespace(elem) \/ elem = HASH}

\* Iterator::find_map over the enumerated slice: the least index that hits
FindMap(hits) ==
    IF hits = {} THEN None ELSE Some(CHOOSE i \in hits : \A j \in hits : i <= j)

\* find_index: the first index >= skip whose byte satisfies find_op.
find_index(slice, skip, find_op) ==
    FindMap({i \in skip .. Len(slice) - 1 : At(slice, i) \in find_op})

RECURSIVE SkipComments(_, _)

\* line 244, then the loop again: content is looked for after the newline
AfterNewline(slice, newline) ==
    IF ~newline.some THEN None
    ELSE SkipComments(slice, find_index(slice, newline.val + 1, NotWhitespace))

\* the while loop of get_content_start_index (lines 242-245), entered with
\* what the last find_index returned
SkipComments(slice, skip) ==
    IF ~skip.some THEN None
    ELSE IF At(slice, skip.val) = HASH
         THEN AfterNewline(slice, find_index(slice, skip.val + 1, Newline))
         ELSE skip

\* Faulty variant of get_content_start_index: comments are not skipped
content_start_without_comments(slice, skip) == find_index(slice, skip, NotWhitespace)

get_content_start_index(slice, skip) ==
    SkipComments(slice, find_index(slice, skip, NotWhitespace))

get_content_end_index(slice, skip) == find_index(slice, skip, WhitespaceOrHash)

(***************************************************************************)
(* str::from_utf8 and str::parse                                           *)
(***************************************************************************)
IsCont(b) == b \in 128 .. 191

RECURSIVE Utf8From(_, _)
\* well-formed UTF-8 from index i on (the table of the Unicode standard that
\* core::str::from_utf8 implements)
Utf8From(s, i) ==
    IF i >= Len(s) THEN TRUE
    ELSE LET b0 == At(s, i)
             has(k) == i + k < Len(s)
             c(k) == At(s, i + k)
         IN  CASE b0 <= 127 -> Utf8From(s, i + 1)
               [] b0 \in 194 .. 223 ->
                    has(1) /\ IsCont(c(1)) /\ Utf8From(s, i + 2)
               [] b0 = 224 ->
                    has(2) /\ c(1) \in 160 .. 191 /\ IsCont(c(2)) /\ Utf8From(s, i + 3)
               [] b0 \in (225 .. 236) \cup {238, 239} ->
                    has(2) /\ IsCont(c(1)) /\ IsCont(c(2)) /\ Utf8From(s, i + 3)
               [] b0 = 237 ->
                    has(2) /\ c(1) \in 128 .. 159 /\ IsCont(c(2)) /\ Utf8From(s, i + 3)
               [] b0 = 240 ->
                    has(3) /\ c(1) \in 144 .. 191 /\ IsCont(c(2)) /\ IsCont(c(3))
                           /\ Utf8From(s, i + 4)
               [] b0 \in 241 .. 243 ->
                    has(3) /\ IsCont(c(1)) /\ IsCont(c(2)) /\ IsCont(c(3))
                           /\ Utf8From(s, i + 4)
               [] b0 = 244 ->
                    has(3) /\ c(1) \in 128 .. 143 /\ IsCont(c(2)) /\ IsCont(c(3))
                           /\ Utf8From(s, i + 4)
               [] OTHER -> FALSE

from_utf8(s) == Utf8From(s, 0)

IsDigit(b) == b \in 48 .. 57

RECURSIVE ParseDigits(_, _, _, _)
\* the digit loop of from_str_radix(.., 10): checked_mul by 10 then checked_add
ParseDigits(s, i, acc, max) ==
    IF i >= Len(s) THEN [ok |-> TRUE, val |-> acc, kind |-> "none"]
    ELSE IF ~IsDigit(At(s, i)) THEN [ok |-> FALSE, val |-> 0, kind |-> "InvalidDigit"]
    ELSE IF acc > max \div 10 THEN [ok |-> FALSE, val |-> 0, kind |-> "PosOverflow"]
    ELSE IF acc * 10 > max - (At(s, i) - 48)
         THEN [ok |-> FALSE, val |-> 0, kind |-> "PosOverflow"]
    ELSE ParseDigits(s, i + 1, acc * 10 + (At(s, i) - 48), max)

\* str::parse::<usize>() with max = usize::MAX, str::parse::<u16>() with max =
\* u16::MAX: an empty string is an error, a lone sign is an error,
\* one leading '+' is accepted, '-' is not a sign of an unsigned type.
parse_unsigned(s, max) ==
    IF Len(s) = 0 THEN [ok |-> FALSE, val |-> 0, kind |-> "Empty"]
    ELSE IF Len(s) = 1 /\ At(s, 0) \in {43, 45}
         THEN [ok |-> FALSE, val |-> 0, kind |-> "InvalidDigit"]
    ELSE IF At(s, 0) = 43 THEN ParseDigits(s, 1, 0, max)
    ELSE ParseDigits(s, 0, 0, max)

(***************************************************************************)
(* f64 arithmetic of the maxval rescaling.  A positive double is kept as   *)
(* [exp, mant]: its value is mant * 2^(exp - 52) with 2^52 <= mant < 2^53. *)
(* The 53-bit significand mant is held as a leading 1 and four 13-bit      *)
(* limbs <<l1, l2, l3, l4>>, most significant first.  Division and         *)
(* multiplication round to nearest, ties to even (IEEE 754 binary64); the  *)
(* cast to u8 truncates toward zero and saturates.                         *)
(***************************************************************************)
Limb == 2^13

F64Zero == [zero |-> TRUE, exp |-> 0, mant |-> <<0, 0, 0, 0>>]

Sign(x) == IF x > 0 THEN 1 ELSE IF x < 0 THEN -1 ELSE 0

RECURSIVE ShiftUp(_, _)
\* the largest t >= 0 with den * 2^t <= num  (num >= den > 0)
ShiftUp(num, den) == IF 2 * den <= num THEN 1 + ShiftUp(num, 2 * den) ELSE 0

RECURSIVE ShiftDown(_, _)
\* the smallest s >= 0 with num * 2^s >= den  (num > 0)
ShiftDown(num, den) == IF num >= den THEN 0 ELSE 1 + ShiftDown(2 * num, den)

\* the significand m plus one unit in the last place (all ones wrap to zero)
Succ(m) ==
    IF m[4] + 1 < Limb THEN <<m[1], m[2], m[3], m[4] + 1>>
    ELSE IF m[3] + 1 < Limb THEN <<m[1], m[2], m[3] + 1, 0>>
    ELSE IF m[2] + 1 < Limb THEN <<m[1], m[2] + 1, 0, 0>>
    ELSE IF m[1] + 1 < Limb THEN <<m[1] + 1, 0, 0, 0>>
    ELSE <<0, 0, 0, 0>>

\* Faulty variant of F64Round: rounding toward zero
F64Truncate(exp, m, cmp) == [zero |-> FALSE, exp |-> exp, mant |-> m]

\* round to nearest, ties to even: m is the truncated significand, cmp is the
\* discarded part compared with half a unit in the last place (-1, 0, 1)
F64Round(exp, m, cmp) ==
    IF cmp > 0 \/ (cmp = 0 /\ m[4] % 2 = 1)
    \* a significand of all ones becomes 2^53 = 2^52 * 2
    THEN [zero |-> FALSE,
          exp |-> IF m = <<Limb - 1, Limb - 1, Limb - 1, Limb - 1>> THEN exp + 1 ELSE exp,
          mant |-> Succ(m)]
    ELSE [zero |-> FALSE, exp |-> exp, mant |-> m]

RECURSIVE LongDiv(_, _, _, _)
\* long division by den, 13 quotient bits at a time: r < den is the remainder
\* so far, q the limbs found so far
LongDiv(exp, den, r, q) ==
    IF Len(q) = 4 THEN F64Round(exp, q, Sign(2 * r - den))
    ELSE LongDiv(exp, den, (r * Limb) % den, Append(q, (r * Limb) \div den))

\* a * 2^down / (b * 2^up), a quotient in [1, 2)
F64DivScaled(a, b, up, down) ==
    LongDiv(up - down, b * 2^up, a * 2^down - b * 2^up, <<>>)

\* (a as f64) / (b as f64) for integers 0 <= a, 0 < b below 2^16 (exact as
\* doubles)
F64Div(a, b) ==
    IF a = 0 THEN F64Zero
    ELSE IF a >= b THEN F64DivScaled(a, b, ShiftUp(a, b), 0)
    ELSE F64DivScaled(a, b, 0, ShiftDown(a, b))

RECURSIVE MulLimbs(_, _, _, _, _)
\* (2^52 + m) * k as <<top, d1, d2, d3, d4>>: top * 2^52 + the limbs d1..d4;
\* limb i is next, carry comes from the limbs below it
MulLimbs(m, k, i, carry, digits) ==
    IF i = 0 THEN <<k + carry>> \o digits
    ELSE MulLimbs(m, k, i - 1, (m[i] * k + carry) \div Limb,
                  <<(m[i] * k + carry) % Limb>> \o digits)

\* limb i of the product d shifted right by sh bits
ShiftedLimb(d, i, sh) == d[i + 1] \div 2^sh + (d[i] % 2^sh) * (Limb \div 2^sh)

\* the product d, of sh + 53 bits, as a double
F64Shifted(exp, d, sh) ==
    F64Round(exp + sh,
             <<ShiftedLimb(d, 1, sh), ShiftedLimb(d, 2, sh), ShiftedLimb(d, 3, sh),
               ShiftedLimb(d, 4, sh)>>,
             Sign(2 * (d[5] % 2^sh) - 2^sh))

\* the product d = <<top, d1, d2, d3, d4>> as a double: top has 8 or 9 bits
F64Product(exp, d) == F64Shifted(exp, d, IF d[1] >= 2^8 THEN 8 ELSE 7)

\* x * k for a double x and an integer 2^7 <= k < 2^8 (exact as a double)
F64MulSmall(x, k) ==
    IF x.zero THEN F64Zero ELSE F64Product(x.exp, MulLimbs(x.mant, k, 4, 0, <<>>))

\* x as u8: truncation toward zero, saturating at u8::MAX
F64ToU8(x) ==
    IF x.zero \/ x.exp < 0 THEN 0
    ELSE IF x.exp >= 8 THEN U8_MAX
    ELSE 2^x.exp + x.mant[1] \div 2^(13 - x.exp)

\* ((color as f64) / (maxval as f64) * 255.) as u8
convert_u8_maxval_color(color, maxval) == F64ToU8(F64MulSmall(F64Div(color, maxval), U8_MAX))

\* ((color as f64) / (maxval as f64) * 255.) as u8
convert_u16_maxval_color(color, maxval) == F64ToU8(F64MulSmall(F64Div(color, maxval), U8_MAX))

(***************************************************************************)
(* Data model (src/src/image.rs)                                           *)
(***************************************************************************)
DEFAULT_ALPHA_VALUE == 0

\* size_of::<Pixel>(): a union of a u32 and four u8
SIZE_OF_PIXEL == 4

\* Result<T, ImagesFromPpmFileError>, and a third outcome for a panic
Ok(v) == [kind |-> "Ok", val |-> v, err |-> "none"]

Err(e) == [kind |-> "Err", val |-> <<>>, err |-> e]

Panic(msg) == [kind |-> "Panic", val |-> <<>>, err |-> msg]

\* Option::ok_or
ok_or(option, e) == IF option.some THEN Ok(option.val) ELSE Err(e)

\* Pixel { rgba: Rgba { r, g, b, a } }
Pixel(r, g, b, a) == [r |-> r, g |-> g, b |-> b, a |-> a]

\* Pixel::color(): the four channels read as one u32, r in the lowest byte
Pixel_color(p) == p.r + 2^8 * p.g + 2^16 * p.b + 2^24 * p.a

\* impl PartialEq for Pixel
Pixel_eq(p, q) == Pixel_color(p) = Pixel_color(q)

\* Faulty variant of Image_new: width and height stored the wrong way round
Image_new_transposed(width, height, data) ==
    Ok([width |-> height, height |-> width, data |-> data])

\* Image::new: asserts width * height == data.len()
Image_new(width, height, data) ==
    LET size == checked_mul(width, height)
    IN  IF ~size.some THEN Panic("Image::new() width * height overflowed")
        ELSE IF size.val /= Len(data) THEN Panic("assertion failed")
        ELSE Ok([width |-> width, height |-> height, data |-> data])

\* #[derive(PartialEq)] for Image
Image_eq(x, y) ==
    /\ x.width = y.width
    /\ x.height = y.height
    /\ Len(x.data) = Len(y.data)
    /\ \A i \in 1 .. Len(x.data) : Pixel_eq(x.data[i], y.data[i])

(***************************************************************************)
(* Pixel decoder                                                           *)
(***************************************************************************)
SIZE_OF_U8_COLOR == 3

SIZE_OF_U16_COLOR == 6

\* the number of values of (first..limit).step_by(step)
StepCount(first, limit, step) ==
    IF limit <= first THEN 0 ELSE (limit - first - 1) \div step + 1

\* Vec::try_reserve_exact(size) for Vec<Pixel>: a capacity of more than
\* isize::MAX bytes is refused (CapacityOverflow); a request within it is
\* taken to be granted by the allocator.
try_reserve_exact(size) ==
    IF size > ISIZE_MAX \div SIZE_OF_PIXEL THEN Err("FailedToAllocateImageData")
    ELSE Ok(<<>>)

read_image_from_u8_maxval(raw_image_data, size, maxval) ==
    LET limit == checked_mul(size, SIZE_OF_U8_COLOR)
    IN  IF ~limit.some THEN Err("SizeMulColorByteCountOverflows")
        ELSE IF Len(raw_image_data) < limit.val THEN Err("LessThanSizePixelsFoundInFile")
        ELSE Ok([bytes_read |-> limit.val,
                 image_data |->
                    [k \in 1 .. StepCount(2, limit.val, SIZE_OF_U8_COLOR) |->
                        LET i == 2 + (k - 1) * SIZE_OF_U8_COLOR
                        IN  Pixel(convert_u8_maxval_color(At(raw_image_data, i - 2), maxval),
                                  convert_u8_maxval_color(At(raw_image_data, i - 1), maxval),
                                  convert_u8_maxval_color(At(raw_image_data, i), maxval),
                                  DEFAULT_ALPHA_VALUE)]])

\* Faulty variant of read_image_from_u16_maxval: samples read as single bytes
read_u16_samples_as_u8(raw_image_data, size, maxval) ==
    read_image_from_u8_maxval(raw_image_data, size, maxval)

read_image_from_u16_maxval(raw_image_data, size, maxval) ==
    LET limit == checked_mul(size, SIZE_OF_U16_COLOR)
    IN  IF ~limit.some THEN Err("SizeMulColorByteCountOverflows")
        ELSE IF Len(raw_image_data) < limit.val THEN Err("LessThanSizePixelsFoundInFile")
        ELSE Ok([bytes_read |-> limit.val,
                 image_data |->
                    [k \in 1 .. StepCount(5, limit.val, SIZE_OF_U16_COLOR) |->
                        LET i == 5 + (k - 1) * SIZE_OF_U16_COLOR
                            r == At(raw_image_data, i - 4) + 2^8 * At(raw_image_data, i - 5)
                            g == At(raw_image_data, i - 2) + 2^8 * At(raw_image_data, i - 3)
                            b == At(raw_image_data, i) + 2^8 * At(raw_image_data, i - 1)
                        IN  Pixel(convert_u16_maxval_color(r, maxval),
                                  convert_u16_maxval_color(g, maxval),
                                  convert_u16_maxval_color(b, maxval),
                                  DEFAULT_ALPHA_VALUE)]])

\* line 168: Ok((bytes_read, Image::new(width, height, image_data)))
ReadDone(bytes_read, image) ==
    IF image.kind /= "Ok" THEN image
    ELSE Ok([bytes_read |-> bytes_read, image |-> image.val])

\* lines 162-168, with what the sample reader returned
ReadSamples(width, height, read) ==
    IF read.kind /= "Ok" THEN read
    ELSE ReadDone(read.val.bytes_read, Image_new(width, height, read.val.image_data))

read_image(raw_image_data, width, height, size, maxval) ==
    IF try_reserve_exact(size).kind /= "Ok" THEN try_reserve_exact(size)
    ELSE ReadSamples(width, height,
                     IF maxval < 256
                     THEN read_image_from_u8_maxval(raw_image_data, size, maxval)
                     ELSE read_image_from_u16_maxval(raw_image_data, size, maxval))

(***************************************************************************)
(* Header parser                                                           *)
(***************************************************************************)
\* b"P6"
P6 == <<80, 54>>

\* a header token as Ok([start, end]), or the error of the search that failed
TokenTo(start, end) ==
    IF end.kind /= "Ok" THEN end ELSE Ok([start |-> start, end |-> end.val])

\* the end of the token that starts at start, sought by get_content_end_index
TokenFrom(file_content, start, no_whitespace) ==
    IF start.kind /= "Ok" THEN start
    ELSE TokenTo(start.val,
                 ok_or(get_content_end_index(file_content, start.val), no_whitespace))

\* the format, width and height tokens: start = get_content_start_index(..)
\* .ok_or(not_found)?, end = get_content_end_index(..).ok_or(no_whitespace)?
Token(file_content, end, not_found, no_whitespace) ==
    TokenFrom(file_content, ok_or(get_content_start_index(file_content, end), not_found),
              no_whitespace)

\* Faulty variant of MaxvalTokenFrom: the maxval token also ends at '#'
maxval_token_ends_at_hash(file_content, start, no_whitespace) ==
    TokenFrom(file_content, start, no_whitespace)

\* the end of the maxval token, sought at whitespace only (line 131)
MaxvalTokenFrom(file_content, start, no_whitespace) ==
    IF start.kind /= "Ok" THEN start
    ELSE TokenTo(start.val,
                 ok_or(find_index(file_content, start.val, Whitespace), no_whitespace))

\* the maxval token (lines 129-132)
MaxvalToken(file_content, end) ==
    MaxvalTokenFrom(file_content,
                    ok_or(get_content_start_index(file_content, end), "MaxvalNotFound"),
                    "NoWhitespaceAfterMaxval")

\* str::parse: Ok(n) or Err(not_number)
ParseNumber(n, not_number) == IF n.ok THEN Ok(n.val) ELSE Err(not_number)

\* str::from_utf8(token).map_err(not_utf8)?.parse().map_err(not_number)?
ParseField(token, max, not_utf8, not_number) ==
    IF ~from_utf8(token) THEN Err(not_utf8)
    ELSE ParseNumber(parse_unsigned(token, max), not_number)

\* a numeric field as Ok([val, end]): its value and the end of its token
FieldValue(end, value) ==
    IF value.kind /= "Ok" THEN value ELSE Ok([val |-> value.val, end |-> end])

\* the numeric field written in token
Field(file_content, token, max, not_utf8, not_number) ==
    IF token.kind /= "Ok" THEN token
    ELSE FieldValue(token.val.end,
                    ParseField(SliceRange(file_content, token.val.start, token.val.end),
                               max, not_utf8, not_number))

\* line 146: Ok((start + bytes_read, image))
ReadAt(start, read) ==
    IF read.kind /= "Ok" THEN read
    ELSE Ok([bytes_read |-> start + read.val.bytes_read, image |-> read.val.image])

\* lines 141-146: the format decides, the pixel data start at start
ParseData(file_content, format, width, height, size, maxval, start) ==
    IF format = P6
    THEN ReadAt(start, read_image(SliceFrom(file_content, start), width, height, size,
                                  maxval))
    ELSE Err("FormatNotSupported")

\* lines 125-139, with the size and the maxval field
ParseMaxvalAndData(file_content, format, width, height, size, maxval) ==
    IF size.kind /= "Ok" THEN size
    ELSE IF maxval.kind /= "Ok" THEN maxval
    ELSE IF maxval.val.val = 0 THEN Err("MaxvalCantBe0")
    ELSE ParseData(file_content, format, width, height, size.val, maxval.val.val,
                   maxval.val.end + 1)

\* lines 116-139, with the height field
ParseHeightAndRest(file_content, format, width, height) ==
    IF height.kind /= "Ok" THEN height
    ELSE ParseMaxvalAndData(file_content, format, width, height.val.val,
                            ok_or(checked_mul(width, height.val.val),
                                  "WidthMulHeightOverflowsUsize"),
                            Field(file_content, MaxvalToken(file_content, height.val.end),
                                  U16_MAX, "MaxvalIsNotAUtf8String", "MaxvalIsNotAU16"))

\* lines 107-123, with the width field
ParseWidthAndRest(file_content, format, width) ==
    IF width.kind /= "Ok" THEN width
    ELSE ParseHeightAndRest(file_content, format, width.val.val,
                            Field(file_content,
                                  Token(file_content, width.val.end, "HeightNotFound",
                                        "NoWhitespaceAfterHeight"),
                                  USIZE_MAX, "HeightIsNotAUtf8String", "HeightIsNotAUsize"))

\* lines 105-114, with the format token
ParseFormatAndRest(file_content, format) ==
    IF format.kind /= "Ok" THEN format
    ELSE ParseWidthAndRest(file_content,
                           SliceRange(file_content, format.val.start, format.val.end),
                           Field(file_content,
                                 Token(file_content, format.val.end, "WidthNotFound",
                                       "NoWhitespaceAfterWidth"),
                                 USIZE_MAX, "WidthIsNotAUtf8String", "WidthIsNotAUsize"))

\* parse_image: Ok([bytes_read, image]) or the first error
parse_image(file_content) ==
    ParseFormatAndRest(file_content,
                       Token(file_content, 0, "FormatNotFound", "NoWhitespaceAfterFormat"))

(***************************************************************************)
(* Multi-image driver                                                      *)
(***************************************************************************)
\* lines 91-94: the match on the next content start
MatchNext(cursor, pushed, stop, next) ==
    IF next.some
    THEN [pc |-> "loop", cursor |-> next.val, image_end |-> stop,
          images |-> pushed, result |-> Ok(<<>>)]
    ELSE [pc |-> "return", cursor |-> cursor, image_end |-> stop,
          images |-> pushed, result |-> Ok(<<>>)]

\* Faulty variant of AfterPush: the loop is left after the first image
AfterPushBreak(file_content, cursor, pushed, stop) ==
    [pc |-> "return", cursor |-> cursor, image_end |-> stop, images |-> pushed,
     result |-> Ok(<<>>)]

\* lines 89-94: the image is pushed, the next image is looked for after it
AfterPush(file_content, cursor, pushed, stop) ==
    MatchNext(cursor, pushed, stop, get_content_start_index(file_content, stop))

\* lines 87-94, with what parse_image returned
AfterParse(file_content, cursor, images, parsed) ==
    IF parsed.kind /= "Ok"
    THEN [pc |-> "done", cursor |-> cursor, image_end |-> cursor,
          images |-> images, result |-> parsed]
    ELSE AfterPush(file_content, cursor, Append(images, parsed.val.image),
                   cursor + parsed.val.bytes_read)

\* one pass of the while loop of parse_ppm_file (lines 86-95), entered with
\* cursor < file_content.len(): the control point it leaves to, with the
\* cursor, the images and (on an error) the value returned
LoopPass(file_content, cursor, images) ==
    AfterParse(file_content, cursor, images, parse_image(SliceFrom(file_content, cursor)))

RECURSIVE RunLoop(_, _, _)

\* the loop pass as the next state of the loop, or the value it returns
LoopNext(file_content, pass) ==
    IF pass.pc = "loop" THEN RunLoop(file_content, pass.cursor, pass.images)
    ELSE IF pass.pc = "return" THEN Ok(pass.images)
    ELSE pass.result

\* the while loop run to its end
RunLoop(file_content, cursor, images) ==
    IF cursor < Len(file_content)
    THEN LoopNext(file_content, LoopPass(file_content, cursor, images))
    ELSE Ok(images)

\* parse_ppm_file as a function of the buffer
parse_ppm_file(file_content) ==
    IF Len(file_content) = 0 THEN Err("FormatNotFound")
    ELSE RunLoop(file_content, 0, <<>>)

(***************************************************************************)
(* Inputs.  A buffer is described by how it is written: an image is the    *)
(* segments lead, format, s1, width, s2, height, s3, maxval, t, payload,   *)
(* cut after the first `stop` of them and followed by `tail`.  lead and    *)
(* s1..s3 are runs of whitespace and newline-terminated comments, t is the *)
(* one whitespace byte after maxval, a token holds no space, tab, newline, *)
(* carriage return or '#' (but for the '#' of the maxval tokens of         *)
(* HashInputs).  A header token is described by its bytes, its form and,   *)
(* when it is a number, its value.                                         *)
(***************************************************************************)
MaxDim == 2

RECURSIVE Decimal(_)
\* format!("{}", n)
Decimal(n) == IF n < 10 THEN <<48 + n>> ELSE Decimal(n \div 10) \o <<48 + (n % 10)>>

Num(n) == [bytes |-> Decimal(n), form |-> "digits", val |-> n]

Plus(n) == [bytes |-> <<43>> \o Decimal(n), form |-> "plus", val |-> n]

Bad(bytes) == [bytes |-> bytes, form |-> "bad", val |-> 0]

\* a maxval written as the digits of n, a '#' directly after them, and rest
Hash(n, rest) == [bytes |-> Decimal(n) \o <<HASH>> \o rest, form |-> "hash", val |-> n]

\* bytes of every kind: '#', whitespace, 0, 255, "P6", bytes above 127
PayloadPattern == <<35, 10, 32, 0, 255, 80, 54, 200, 128, 1, 13, 65, 11, 133>>

Pattern(n) == [i \in 1 .. n |-> PayloadPattern[((i - 1) % Len(PayloadPattern)) + 1]]

\* "P6 2 1 255 " / " \nP6\t2\r\n1  255\n" / "#c\nP6\t2 #test\n1\n# Hey\n255 " /
\* "P6#\n2#c\n1 \n 255\r"
Styles ==
    { [lead |-> <<>>, s1 |-> <<32>>, s2 |-> <<32>>, s3 |-> <<32>>, t |-> <<32>>],
      [lead |-> <<32, 10>>, s1 |-> <<9>>, s2 |-> <<13, 10>>, s3 |-> <<32, 32>>,
       t |-> <<10>>],
      [lead |-> <<35, 99, 10>>, s1 |-> <<9>>, s2 |-> <<32, 35, 116, 101, 115, 116, 10>>,
       s3 |-> <<10, 35, 32, 72, 101, 121, 10>>, t |-> <<32>>],
      [lead |-> <<>>, s1 |-> <<35, 10>>, s2 |-> <<35, 99, 10>>, s3 |-> <<32, 10, 32>>,
       t |-> <<13>>] }

PlainStyle == [lead |-> <<>>, s1 |-> <<32>>, s2 |-> <<32>>, s3 |-> <<32>>, t |-> <<32>>]

\* "P5", "htre4"
OtherFormats == {<<80, 53>>, <<104, 116, 114, 101, 52>>}

\* nothing, " ", "\n#t\n", "#u" (a comment left open), "X", a vertical tab
Tails == {<<>>, <<32>>, <<10, 35, 116, 10>>, <<35, 117>>, <<88>>, <<11>>}

CutTails == {<<>>, <<32>>, <<35, 117>>, <<11>>}

Desc(style, fmt, w, h, m, payload, stop, tail) ==
    [lead |-> style.lead, fmt |-> fmt, s1 |-> style.s1, w |-> w, s2 |-> style.s2,
     h |-> h, s3 |-> style.s3, m |-> m, t |-> style.t, payload |-> payload,
     stop |-> stop, tail |-> tail]

Segments(d) ==
    <<d.lead, d.fmt, d.s1, d.w.bytes, d.s2, d.h.bytes, d.s3, d.m.bytes, d.t, d.payload>>

RECURSIVE Flatten(_)
Flatten(segs) == IF segs = <<>> THEN <<>> ELSE Head(segs) \o Flatten(Tail(segs))

\* the bytes of the first n segments
Upto(d, n) == Flatten(SubSeq(Segments(d), 1, n))

Render(d) == Upto(d, d.stop) \o d.tail

RenderAll(ds) == Flatten([i \in 1 .. Len(ds) |-> Render(ds[i])])

\* bytes per sample, and the payload bytes of w * h pixels
SampleBytes(m) == IF m < 256 THEN 1 ELSE 2

Need(w, h, m) == w * h * 3 * SampleBytes(m)

\* a buffer holding the one image d
One(d) == <<d>>

\* complete images of small dimensions, the payload whole or one byte short
ImageInputs ==
    { One(Desc(style, P6, Num(w), Num(h), Num(m), Pattern(Need(w, h, m) - short), 10,
               tail)) :
        style \in Styles, w \in 0 .. MaxDim, h \in 0 .. MaxDim,
        m \in {1, 255, 256, U16_MAX}, short \in {0, 1}, tail \in Tails }

\* headers cut after each segment; a field past the cut keeps its first value
CutInputs ==
    LET ws == <<Num(2), Bad(<<120>>)>>
        hs == <<Num(1), Bad(<<45, 49>>)>>
        ms == <<Num(255), Num(0), Bad(<<50, 102>>)>>
        cuts == { c \in [style : Styles, fmt : {P6} \cup OtherFormats, w : 1 .. 2,
                         h : 1 .. 2, m : 1 .. 3, stop : 0 .. 10, tail : CutTails] :
                    /\ c.stop < 4 => c.w = 1
                    /\ c.stop < 6 => c.h = 1
                    /\ c.stop < 8 => c.m = 1 }
    IN  { One(Desc(c.style, c.fmt, ws[c.w], hs[c.h], ms[c.m], Pattern(6), c.stop, c.tail)) :
            c \in cuts }

\* dimensions at the limits of usize and of what can be reserved
Dims == {1, 2, 255, 256, 257, ISIZE_MAX \div SIZE_OF_PIXEL, ISIZE_MAX \div SIZE_OF_PIXEL + 1,
         USIZE_MAX}

SizeInputs ==
    { One(Desc(PlainStyle, fmt, Num(w), Num(h), Num(m), Pattern(6), stop, tail)) :
        fmt \in {P6, <<80, 53>>}, w \in Dims, h \in Dims, m \in {255, 256},
        stop \in {6, 7, 10}, tail \in {<<>>, <<32>>} }

\* "+1", "x", "-1", "1\v", 0xFF, "é", "4f3", "01", a number past usize, past u16,
\* and "99999999999999999999999999999"
OddTokens ==
    { Plus(1), Bad(<<120>>), Bad(<<45, 49>>), Bad(<<49, 11>>), Bad(<<255>>),
      Bad(<<195, 169>>), Bad(<<52, 102, 51>>), Bad(<<48, 49>>), Num(USIZE_MAX + 1),
      Num(U16_MAX + 1),
      Bad([i \in 1 .. 29 |-> 57]) }

TokenInputs ==
    { One(Desc(PlainStyle, P6, f.w, f.h, f.m, Pattern(6), stop, tail)) :
        f \in { [w |-> tok, h |-> Num(1), m |-> Num(255)] : tok \in OddTokens }
               \cup { [w |-> Num(1), h |-> tok, m |-> Num(255)] : tok \in OddTokens }
               \cup { [w |-> Num(1), h |-> Num(1), m |-> tok] : tok \in OddTokens },
        stop \in {4, 6, 8, 10}, tail \in {<<>>, <<32>>} }

\* a 2 x 1 image of maxval 255 with one payload byte running over every value
ByteInputs ==
    { One(Desc(PlainStyle, P6, Num(2), Num(1), Num(255),
               [Pattern(6) EXCEPT ![pos] = x], 10, <<>>)) :
        pos \in 1 .. 6, x \in 0 .. 255 }

\* buffers of one image each, to be written one after the other
Singles ==
    { Desc(style, P6, Num(f[1]), Num(f[2]), Num(f[3]), Pattern(Need(f[1], f[2], f[3])),
           10, tail) :
        style \in Styles, f \in {<<1, 1, 255>>, <<2, 1, 256>>, <<0, 2, 1>>},
        tail \in {<<>>, <<32>>, <<10, 35, 116, 10>>, <<35, 117>>} }
    \cup { Desc(PlainStyle, <<80, 53>>, Num(1), Num(1), Num(255), Pattern(3), 10, <<>>),
           Desc(PlainStyle, P6, Num(1), Num(1), Num(255), Pattern(2), 10, <<>>),
           Desc(PlainStyle, P6, Num(1), Num(1), Num(255), Pattern(3), 10, <<88>>),
           Desc(PlainStyle, P6, Num(1), Num(1), Num(0), Pattern(3), 10, <<>>) }

ConcatInputs == { <<a, b>> : a \in Singles, b \in Singles }

\* one row of maxval 255 with the payload whole, of the most pixels that can be
\* reserved and of one pixel more
HugeInputs ==
    { One(Desc(PlainStyle, P6, Num(w), Num(1), Num(255), Pattern(Need(w, 1, 255)), 10, <<>>)) :
        w \in {ISIZE_MAX \div SIZE_OF_PIXEL, ISIZE_MAX \div SIZE_OF_PIXEL + 1} }

\* whole images whose width or height is written with a leading '+':
\* "P6 +1 1 255 " and its like, the payload whole
SignInputs ==
    { One(Desc(PlainStyle, P6, f[1], f[2], Num(255), Pattern(Need(f[1].val, f[2].val, 255)),
               10, <<>>)) :
        f \in { <<Plus(1), Num(1)>>, <<Num(1), Plus(2)>>, <<Plus(2), Plus(1)>> } }

\* images whose maxval digits are directly followed by '#': "P6 1 1 255# ",
\* "P6 1 1 255#c\n", "P6 1 1 1#2 ", cut after the token or written whole
HashInputs ==
    { One(Desc(style, P6, Num(w), Num(1), tok, Pattern(Need(w, 1, 255)), stop, tail)) :
        style \in Styles, w \in 1 .. MaxDim,
        tok \in {Hash(255, <<>>), Hash(255, <<99>>), Hash(1, <<50>>)},
        stop \in {8, 10}, tail \in {<<>>, <<32>>} }

Inputs == ImageInputs \cup CutInputs \cup SizeInputs \cup TokenInputs \cup ByteInputs
          \cup ConcatInputs \cup HugeInputs \cup SignInputs \cup HashInputs

(***************************************************************************)
(* parse_ppm_file as a state machine: one step per pass of its loop        *)
(***************************************************************************)
VARIABLES
    input,          \* how the buffer was written (not read by the program)
    file_content,   \* the buffer
    cursor,         \* where the next image is looked for
    image_end,      \* cursor + bytes_read of the last image parsed
    images,         \* the images pushed so far
    pc,             \* "start", "loop", "return", "done"
    result          \* what parse_ppm_file returned, once pc = "done"

vars == <<input, file_content, cursor, image_end, images, pc, result>>

Pending == [kind |-> "Pending", val |-> <<>>, err |-> "none"]

Init ==
    /\ input \in Inputs
    /\ file_content = RenderAll(input)
    /\ cursor = 0
    /\ image_end = 0
    /\ images = <<>>
    /\ pc = "start"
    /\ result = Pending

\* lines 79-85: an empty buffer is refused, otherwise the loop is entered
Begin ==
    /\ pc = "start"
    /\ IF Len(file_content) = 0
       THEN /\ pc' = "done"
            /\ result' = Err("FormatNotFound")
       ELSE /\ pc' = "loop"
            /\ result' = result
    /\ cursor' = 0
    /\ UNCHANGED <<input, file_content, image_end, images>>

\* lines 86-95: one pass of the loop
LoopBody ==
    /\ pc = "loop"
    /\ cursor < Len(file_content)
    /\ \E pass \in {LoopPass(file_content, cursor, images)} :
           /\ pc' = pass.pc
           /\ cursor' = pass.cursor
           /\ images' = pass.images
           /\ image_end' = IF pass.pc = "done" THEN image_end ELSE pass.image_end
           /\ result' = IF pass.pc = "done" THEN pass.result ELSE result
    /\ UNCHANGED <<input, file_content>>

\* line 97: the loop has ended, by its condition or by break
Return ==
    /\ pc \in {"loop", "return"}
    /\ pc = "loop" => ~(cursor < Len(file_content))
    /\ pc' = "done"
    /\ result' = Ok(images)
    /\ UNCHANGED <<input, file_content, cursor, image_end, images>>

Next == Begin \/ LoopBody \/ Return

Spec == Init /\ [][Next]_vars

(***************************************************************************)
(* The vocabulary of the specification.  Its whitespace is the four ASCII  *)
(* bytes space, tab, newline and carriage return; a comment runs from '#'  *)
(* to the next newline.                                                    *)
(***************************************************************************)
SpecWhitespace == {32, 9, 10, 13}

RECURSIVE IsBlankFrom(_, _, _)
\* s[i..] (i from 1) holds whitespace and comments only; in_comment: s[i] is
\* inside a comment
IsBlankFrom(s, i, in_comment) ==
    IF i > Len(s) THEN TRUE
    ELSE IF in_comment THEN IsBlankFrom(s, i + 1, s[i] /= NEWLINE)
    ELSE IF s[i] = HASH THEN IsBlankFrom(s, i + 1, TRUE)
    ELSE s[i] \in SpecWhitespace /\ IsBlankFrom(s, i + 1, FALSE)

IsBlank(s) == IsBlankFrom(s, 1, FALSE)

\* tok is written in decimal digits and is at most max
InRange(tok, max) == tok.form = "digits" /\ tok.val <= max

\* the header of d is written whole, separator byte included, and is what the
\* specification accepts: P6, a usize width and height, a maxval in 1..65535
WellFormed(d) ==
    /\ d.stop >= 9
    /\ d.fmt = P6
    /\ InRange(d.w, USIZE_MAX)
    /\ InRange(d.h, USIZE_MAX)
    /\ InRange(d.m, U16_MAX)
    /\ d.m.val > 0

\* w * h is within usize
Fits(w, h) == w = 0 \/ h <= USIZE_MAX \div w

\* a Vec of w * h pixels is within isize::MAX bytes
Reservable(w, h) == w = 0 \/ h <= (ISIZE_MAX \div SIZE_OF_PIXEL) \div w

\* w * h * c > n >= 0, without forming a product that does not fit
Exceeds(w, h, c, n) == w > 0 /\ h > (n \div c) \div w

\* the index of the first payload byte of d, when d is written first
PayloadOffset(d) == Len(Upto(d, 9))

\* the buffer holds the one image d and nothing else but whitespace and comments
SingleValid(ds) ==
    /\ Len(ds) = 1
    /\ WellFormed(ds[1])
    /\ ds[1].stop = 10
    /\ Fits(ds[1].w.val, ds[1].h.val)
    /\ Len(ds[1].payload) = Need(ds[1].w.val, ds[1].h.val, ds[1].m.val)
    /\ IsBlank(ds[1].tail)

\* parse_ppm_file has returned Ok with one image of d's width and height, of
\* width * height pixels, every alpha 0
OneImageOf(d) ==
    /\ result.kind = "Ok"
    /\ Len(result.val) = 1
    /\ result.val[1].width = d.w.val
    /\ result.val[1].height = d.h.val
    /\ Len(result.val[1].data) = d.w.val * d.h.val
    /\ \A i \in 1 .. Len(result.val[1].data) : result.val[1].data[i].a = 0

(***************************************************************************)
(* C1 as stated: for every buffer holding exactly one valid P6 image of    *)
(* width W and height H with its payload fully present, parse_ppm_file     *)
(* returns Ok with one image of width W, height H and W*H pixels, every    *)
(* alpha 0.  A row of more pixels than can be reserved refutes it.         *)
(***************************************************************************)
C1_AsStated == pc = "done" /\ SingleValid(input) => OneImageOf(input[1])

(***************************************************************************)
(* C1, amended: for every buffer holding exactly one valid P6 image of     *)
(* width W and height H with its payload fully present, and W*H pixels     *)
(* within what a Vec can reserve (W*H*4 <= isize::MAX), parse_ppm_file     *)
(* returns Ok with one image of width W, height H and W*H pixels, every    *)
(* alpha 0; past that limit it returns FailedToAllocateImageData.          *)
(***************************************************************************)
C1_SingleImage ==
    pc = "done" /\ SingleValid(input) =>
        IF Reservable(input[1].w.val, input[1].h.val)
        THEN OneImageOf(input[1])
        ELSE result = Err("FailedToAllocateImageData")

\* a 2 x 1 image of 2-byte samples behind comments has been decoded
C1_Witness ==
    /\ pc = "done" /\ SingleValid(input) /\ OneImageOf(input[1])
    /\ input[1].w.val = 2 /\ input[1].h.val = 1 /\ input[1].m.val = U16_MAX
    /\ input[1].lead = <<35, 99, 10>>

(***************************************************************************)
(* C2: for every valid P6 image of maxval 255, pixel i of the decoded      *)
(* image (row-major, i from 0) has r, g, b equal to payload bytes 3i,      *)
(* 3i+1, 3i+2, whatever the byte values.                                   *)
(***************************************************************************)
C2_Identity255 ==
    pc = "done" /\ SingleValid(input) /\ input[1].m.val = 255 /\ result.kind = "Ok" =>
        /\ Len(result.val[1].data) * 3 = Len(input[1].payload)
        /\ \A i \in 0 .. Len(result.val[1].data) - 1 :
              /\ result.val[1].data[i + 1].r = input[1].payload[3 * i + 1]
              /\ result.val[1].data[i + 1].g = input[1].payload[3 * i + 2]
              /\ result.val[1].data[i + 1].b = input[1].payload[3 * i + 3]

\* the second pixel of a decoded image of maxval 255 has kept the sample 251
C2_Witness ==
    /\ pc = "done" /\ SingleValid(input) /\ input[1].m.val = 255 /\ result.kind = "Ok"
    /\ Len(input[1].payload) = 6
    /\ input[1].payload[4] = 251
    /\ result.val[1].data[2].r = 251

\* res is Ok with exactly one image
IsOneImage(res) == res.kind = "Ok" /\ Len(res.val) = 1

\* the buffer is A ++ B, and A and B each parse alone to exactly one image
EachParsesAlone(ds) ==
    /\ Len(ds) = 2
    /\ IsOneImage(parse_ppm_file(Render(ds[1])))
    /\ IsOneImage(parse_ppm_file(Render(ds[2])))

\* parse_ppm_file(A ++ B) has returned the image of A alone, then the image of B alone
BothInOrder(ds) ==
    /\ result.kind = "Ok"
    /\ Len(result.val) = 2
    /\ Image_eq(result.val[1], parse_ppm_file(Render(ds[1])).val[1])
    /\ Image_eq(result.val[2], parse_ppm_file(Render(ds[2])).val[1])

RECURSIVE InComment(_, _, _)
\* the end of s is inside a comment; in_comment: s[i] (i from 1) is inside one
InComment(s, i, in_comment) ==
    IF i > Len(s) THEN in_comment
    ELSE InComment(s, i + 1, IF in_comment THEN s[i] /= NEWLINE ELSE s[i] = HASH)

(***************************************************************************)
(* C3 as stated: for any two buffers A and B that each parse on their own  *)
(* to exactly one image, parse_ppm_file(A ++ B) returns Ok with exactly    *)
(* two images, the image of A alone then the image of B alone.  A buffer A *)
(* that ends in a comment with no newline refutes it: the comment runs on  *)
(* into B.                                                                 *)
(***************************************************************************)
C3_AsStated == pc = "done" /\ EachParsesAlone(input) => BothInOrder(input)

(***************************************************************************)
(* C3, amended: for any two buffers A and B that each parse on their own   *)
(* to exactly one image, A not ending inside a '#' comment (every '#'      *)
(* after A's image is followed by a newline within A), parse_ppm_file      *)
(* (A ++ B) returns Ok with exactly two images, the image of A alone then  *)
(* the image of B alone, also when B's header holds comments and varied    *)
(* whitespace.                                                             *)
(***************************************************************************)
C3_Concat ==
    pc = "done" /\ EachParsesAlone(input) /\ ~InComment(input[1].tail, 1, FALSE) =>
        BothInOrder(input)

\* A ends with a closed comment, B opens with a comment, and both images came out
C3_Witness ==
    /\ pc = "done" /\ EachParsesAlone(input) /\ BothInOrder(input)
    /\ input[1].tail = <<10, 35, 116, 10>>
    /\ input[2].lead = <<35, 99, 10>>
    /\ input[1].m.val = 256

(***************************************************************************)
(* C4: parse_ppm_file never returns Ok with an empty sequence, and a       *)
(* buffer that is empty or holds only whitespace and '#' comments, the     *)
(* last comment ended by a newline or not, returns FormatNotFound.         *)
(***************************************************************************)
C4_NeverEmpty ==
    /\ pc = "done" /\ result.kind = "Ok" => Len(result.val) >= 1
    /\ pc = "done" /\ IsBlank(file_content) => result = Err("FormatNotFound")

\* "#c\n#u", a comment and a comment left open, has returned FormatNotFound
C4_Witness ==
    /\ pc = "done"
    /\ file_content = <<35, 99, 10, 35, 117>>
    /\ IsBlank(file_content)
    /\ result = Err("FormatNotFound")

(***************************************************************************)
(* C5 as stated: a failure returns the error and no image, and an Ok       *)
(* result implies that every byte after the last parsed image is           *)
(* whitespace or comment.  A vertical tab after a valid image refutes it:  *)
(* the tokenizer skips it as whitespace (see C10) and Ok is returned.      *)
(***************************************************************************)
C5_AsStated ==
    /\ pc = "done" /\ result.kind = "Err" => result.val = <<>>
    /\ pc = "done" /\ result.kind = "Ok" => IsBlank(SliceFrom(file_content, image_end))

RECURSIVE SpecContentStart(_, _, _)
\* the index (from 1) of the first byte of s[i..] that is neither whitespace
\* nor in a comment, 0 when there is none
SpecContentStart(s, i, in_comment) ==
    IF i > Len(s) THEN 0
    ELSE IF in_comment THEN SpecContentStart(s, i + 1, s[i] /= NEWLINE)
    ELSE IF s[i] = HASH THEN SpecContentStart(s, i + 1, TRUE)
    ELSE IF s[i] \in SpecWhitespace THEN SpecContentStart(s, i + 1, FALSE)
    ELSE i

RECURSIVE SpecContentEnd(_, _, _)
\* the index (from 1) of the first byte of s[i..] that is in stops, 0 when
\* there is none
SpecContentEnd(s, i, stops) ==
    IF i > Len(s) THEN 0
    ELSE IF s[i] \in stops THEN i
    ELSE SpecContentEnd(s, i + 1, stops)

\* the token found by a search from index i: where it starts and where it
\* ends (0: no token, no end)
SpecTokenAt(s, start, stops) ==
    [start |-> start, end |-> IF start = 0 THEN 0 ELSE SpecContentEnd(s, start, stops)]

SpecToken(s, i, stops) == SpecTokenAt(s, SpecContentStart(s, i, FALSE), stops)

\* the first header token of the buffer
SpecFormat == SpecToken(file_content, 1, SpecWhitespace \cup {HASH})

(***************************************************************************)
(* C6 as stated: when the first header token is terminated by whitespace   *)
(* and is not P6 the result is FormatNotSupported, and when it runs to the *)
(* end of the buffer the result is NoWhitespaceAfterFormat.  "P5 " refutes *)
(* it: the format is compared last, after the other fields were parsed.    *)
(***************************************************************************)
C6_AsStated ==
    /\ ( /\ pc = "done"
         /\ SpecFormat.end /= 0
         /\ file_content[SpecFormat.end] \in SpecWhitespace
         /\ SubSeq(file_content, SpecFormat.start, SpecFormat.end - 1) /= P6 )
       => result = Err("FormatNotSupported")
    /\ pc = "done" /\ SpecFormat.start /= 0 /\ SpecFormat.end = 0
       => result = Err("NoWhitespaceAfterFormat")

\* the bytes of the buffer from the first payload byte of its first image on
Remaining == Len(file_content) - PayloadOffset(input[1])

\* the bytes per pixel of d
PixelBytes(d) == 3 * SampleBytes(d.m.val)

\* the payload of the first image is short
Short(d) == Exceeds(d.w.val, d.h.val, PixelBytes(d), Remaining)

\* the first pass of the loop has been made
FirstPassMade == pc /= "start" /\ ~(pc = "loop" /\ images = <<>>)

\* the first image was decoded from exactly W*H*3*k payload bytes
DecodedExactly(d) ==
    /\ Len(images) >= 1
    /\ images[1].width = d.w.val
    /\ images[1].height = d.h.val
    /\ Len(images[1].data) = d.w.val * d.h.val
    /\ Len(images) = 1 /\ pc \in {"loop", "return"} =>
          image_end = PayloadOffset(d) + d.w.val * d.h.val * PixelBytes(d)

(***************************************************************************)
(* C7 as stated: for every well-formed P6 header (W, H, maxval M > 0),     *)
(* fewer than W*H*3*k bytes after the separator (k = 1 when M < 256, else  *)
(* 2) give LessThanSizePixelsFoundInFile; at least that many give a        *)
(* decoded image and exactly W*H*3*k payload bytes consumed.  A width of   *)
(* usize::MAX refutes it: the pixels are reserved, and W*H is formed,      *)
(* before the payload is measured.                                         *)
(***************************************************************************)
C7_AsStated ==
    Len(input) >= 1 /\ WellFormed(input[1]) =>
        /\ pc = "done" /\ Short(input[1]) => result = Err("LessThanSizePixelsFoundInFile")
        /\ FirstPassMade /\ ~Short(input[1]) => DecodedExactly(input[1])

(***************************************************************************)
(* C7, amended: for every well-formed P6 header (W, H, maxval M > 0) whose *)
(* W*H pixels can be reserved (W*H*4 <= isize::MAX, so W*H is within       *)
(* usize), fewer than W*H*3*k bytes after the separator give               *)
(* LessThanSizePixelsFoundInFile and no image; at least that many give a   *)
(* decoded image of W*H pixels and exactly W*H*3*k payload bytes consumed. *)
(***************************************************************************)
C7_PayloadLength ==
    Len(input) >= 1 /\ WellFormed(input[1])
    /\ Reservable(input[1].w.val, input[1].h.val) =>
        /\ pc = "done" /\ Short(input[1]) => result = Err("LessThanSizePixelsFoundInFile")
        /\ FirstPassMade /\ ~Short(input[1]) => DecodedExactly(input[1])

\* a 2 x 2 image of 2-byte samples: 24 payload bytes were consumed
C7_Witness ==
    /\ Len(input) = 1 /\ WellFormed(input[1]) /\ ~Short(input[1])
    /\ input[1].w.val = 2 /\ input[1].h.val = 2 /\ input[1].m.val = 256
    /\ pc = "return" /\ DecodedExactly(input[1])
    /\ image_end = PayloadOffset(input[1]) + 24

\* the width and height tokens of d are written, the height token terminated,
\* and both are numbers within usize
ValidWidthAndHeight(d) ==
    /\ \/ d.stop >= 7
       \/ d.stop = 6 /\ d.tail /= <<>> /\ d.tail[1] \in SpecWhitespace \cup {HASH}
    /\ InRange(d.w, USIZE_MAX)
    /\ InRange(d.h, USIZE_MAX)

(***************************************************************************)
(* C8: for every header with valid, terminated width and height tokens     *)
(* whose product exceeds usize the result is WidthMulHeightOverflowsUsize, *)
(* and FailedToAllocateImageData is returned only for a width and height   *)
(* whose product is within usize but whose pixels cannot be reserved.      *)
(***************************************************************************)
C8_Overflow ==
    /\ ( /\ pc = "done" /\ Len(input) >= 1
         /\ ValidWidthAndHeight(input[1])
         /\ ~Fits(input[1].w.val, input[1].h.val) )
       => result = Err("WidthMulHeightOverflowsUsize")
    /\ pc = "done" /\ result = Err("FailedToAllocateImageData")
       => /\ ValidWidthAndHeight(input[1])
          /\ Fits(input[1].w.val, input[1].h.val)
          /\ ~Reservable(input[1].w.val, input[1].h.val)

\* "P6 <usize::MAX> 2 256 " has returned WidthMulHeightOverflowsUsize
C8_Witness ==
    /\ pc = "done" /\ Len(input) = 1 /\ ValidWidthAndHeight(input[1])
    /\ input[1].fmt = P6
    /\ input[1].w.val = USIZE_MAX /\ input[1].h.val = 2 /\ input[1].m.val = 256
    /\ input[1].stop = 10
    /\ result = Err("WidthMulHeightOverflowsUsize")

RECURSIVE SpecValue(_, _, _, _)
\* the number the digits tok[i..] continue from acc, -1 when tok is not an
\* unsigned decimal number of at most max
SpecValue(tok, i, acc, max) ==
    IF i > Len(tok) THEN acc
    ELSE IF tok[i] \notin 48 .. 57 THEN -1
    ELSE IF acc * 10 + (tok[i] - 48) > max THEN -1
    ELSE SpecValue(tok, i + 1, acc * 10 + (tok[i] - 48), max)

NoToken == [start |-> 0, end |-> 0]

\* the header tokens after the format, each sought from the end of the one before
SpecWidth ==
    IF SpecFormat.end = 0 THEN NoToken
    ELSE SpecToken(file_content, SpecFormat.end, SpecWhitespace \cup {HASH})

SpecHeight ==
    IF SpecWidth.end = 0 THEN NoToken
    ELSE SpecToken(file_content, SpecWidth.end, SpecWhitespace \cup {HASH})

\* the maxval token ends at whitespace only
SpecMaxval ==
    IF SpecHeight.end = 0 THEN NoToken
    ELSE SpecToken(file_content, SpecHeight.end, SpecWhitespace)

\* the value of a terminated token as a usize, -1 when it has none
UsizeValue(t) ==
    IF t.end = 0 THEN -1
    ELSE SpecValue(SubSeq(file_content, t.start, t.end - 1), 1, 0, USIZE_MAX)

\* no token gives the error not_found, a token that runs to the end of the
\* buffer gives the error no_whitespace
FieldOutcome(t, not_found, no_whitespace) ==
    /\ t.start = 0 => result = Err(not_found)
    /\ t.start /= 0 /\ t.end = 0 => result = Err(no_whitespace)

(***************************************************************************)
(* C9 as stated: for each field F of width, height, maxval, the fields     *)
(* before it being read, no further token gives F-NotFound and a token     *)
(* that runs to the end of the buffer gives NoWhitespaceAfter-F.  A width  *)
(* followed by a vertical tab refutes it: "P6 1\v" holds a width token     *)
(* with no terminator, and the tokenizer ends it at the vertical tab (see  *)
(* C10) and returns HeightNotFound.                                        *)
(***************************************************************************)
C9_AsStated ==
    pc = "done" =>
        /\ SpecFormat.end /= 0 =>
              FieldOutcome(SpecWidth, "WidthNotFound", "NoWhitespaceAfterWidth")
        /\ UsizeValue(SpecWidth) >= 0 =>
              FieldOutcome(SpecHeight, "HeightNotFound", "NoWhitespaceAfterHeight")
        /\ ( /\ UsizeValue(SpecWidth) >= 0
             /\ UsizeValue(SpecHeight) >= 0
             /\ Fits(UsizeValue(SpecWidth), UsizeValue(SpecHeight)) ) =>
              FieldOutcome(SpecMaxval, "MaxvalNotFound", "NoWhitespaceAfterMaxval")

\* where the driver calls the tokenizer: the cursor and the end of the last image
Probes == {cursor, image_end} \cap (0 .. Len(file_content) - 1)

\* the index after the bytes that the search for content skips as whitespace
SkippedUpTo(skip) ==
    IF find_index(file_content, skip, NotWhitespace).some
    THEN find_index(file_content, skip, NotWhitespace).val
    ELSE Len(file_content)

\* the byte at which the search for a token end stops is whitespace or '#'
EndsAtSeparator(end) ==
    end.some => At(file_content, end.val) \in SpecWhitespace \cup {HASH}

(***************************************************************************)
(* C10 as stated: the tokenizer treats exactly space, tab, newline and     *)
(* carriage return as whitespace: no other byte is skipped by the search   *)
(* for content, and no other byte ends a token as whitespace.  A vertical  *)
(* tab refutes it: the code tests char::is_whitespace, which also holds of *)
(* 0x0B, 0x0C, 0x85 and 0xA0.                                              *)
(***************************************************************************)
C10_AsStated ==
    \A skip \in Probes :
        /\ \A i \in skip .. SkippedUpTo(skip) - 1 : At(file_content, i) \in SpecWhitespace
        /\ EndsAtSeparator(get_content_end_index(file_content, skip))

\* the bytes of the terminated token t
TokenBytes(t) == SubSeq(file_content, t.start, t.end - 1)

\* the terminated token t is text, and is not an unsigned decimal number of
\* digits only that fits usize
NotASize(t) == t.end /= 0 /\ from_utf8(TokenBytes(t)) /\ UsizeValue(t) < 0

(***************************************************************************)
(* C11 as stated: a width or height token that is text but not a number    *)
(* of decimal digits only within usize (a sign, a leading '+', another     *)
(* character, an overflowing value) is rejected with WidthIsNotAUsize /    *)
(* HeightIsNotAUsize.  "P6 +1 1 255 " with three payload bytes refutes it: *)
(* str::parse::<usize> accepts one leading '+', and the image is returned. *)
(***************************************************************************)
C11_AsStated ==
    pc = "done" =>
        /\ NotASize(SpecWidth) => result = Err("WidthIsNotAUsize")
        /\ UsizeValue(SpecWidth) >= 0 /\ NotASize(SpecHeight) =>
              result = Err("HeightIsNotAUsize")

\* sample j (from 0) of the payload of d, read from the buffer at the byte
\* after the separator onwards and rescaled to 0..255
SampleAt(d, j) ==
    IF d.m.val < 256
    THEN convert_u8_maxval_color(file_content[PayloadOffset(d) + j + 1], d.m.val)
    ELSE convert_u16_maxval_color(2^8 * file_content[PayloadOffset(d) + 2 * j + 1]
                                  + file_content[PayloadOffset(d) + 2 * j + 2], d.m.val)

\* the one byte between the maxval token of d and its payload is whitespace
OneSeparator(d) ==
    /\ Len(d.t) = 1
    /\ file_content[PayloadOffset(d)] \in SpecWhitespace
    /\ SubSeq(file_content, PayloadOffset(d) - Len(d.m.bytes), PayloadOffset(d) - 1)
          = d.m.bytes

\* the pixels of the first image are the samples that start at the byte after
\* the separator, three to a pixel, none skipped
PayloadStartsAfterSeparator(d) ==
    /\ Len(images) >= 1
    /\ Len(images[1].data) = d.w.val * d.h.val
    /\ \A i \in 0 .. Len(images[1].data) - 1 :
          images[1].data[i + 1] = Pixel(SampleAt(d, 3 * i), SampleAt(d, 3 * i + 1),
                                        SampleAt(d, 3 * i + 2), DEFAULT_ALPHA_VALUE)
    /\ Len(images) = 1 /\ pc \in {"loop", "return"} =>
          image_end - d.w.val * d.h.val * PixelBytes(d) = PayloadOffset(d)

\* the width and height of d are valid and the maxval token of d is written
MaxvalWritten(d) ==
    /\ d.stop >= 8
    /\ InRange(d.w, USIZE_MAX)
    /\ InRange(d.h, USIZE_MAX)
    /\ Fits(d.w.val, d.h.val)

\* no byte of s is whitespace
NoWhitespaceIn(s) == \A i \in 1 .. Len(s) : ~is_whitespace(s[i])

(***************************************************************************)
(* C12: for every well-formed P6 header whose pixels can be reserved and   *)
(* whose payload is whole, exactly the one whitespace byte after the       *)
(* maxval token is consumed as separator: the pixels are decoded from the  *)
(* bytes that start right after it, whatever their values (whitespace and  *)
(* '#' included), none skipped.  A '#' directly after the maxval digits    *)
(* neither ends the token nor starts a comment: it is part of the token,   *)
(* which then is not a number (MaxvalIsNotAU16), or has no whitespace      *)
(* after it (NoWhitespaceAfterMaxval).                                     *)
(***************************************************************************)
C12_OneSeparator ==
    Len(input) >= 1 =>
        /\ ( /\ WellFormed(input[1])
             /\ Reservable(input[1].w.val, input[1].h.val)
             /\ ~Short(input[1])
             /\ FirstPassMade )
           => OneSeparator(input[1]) /\ PayloadStartsAfterSeparator(input[1])
        /\ ( /\ pc = "done" /\ MaxvalWritten(input[1])
             /\ input[1].m.form = "hash" )
           => result = IF input[1].stop = 8 /\ NoWhitespaceIn(input[1].tail)
                       THEN Err("NoWhitespaceAfterMaxval")
                       ELSE Err("MaxvalIsNotAU16")
        /\ ( /\ pc = "done" /\ MaxvalWritten(input[1])
             /\ input[1].stop = 8 /\ input[1].tail /= <<>>
             /\ input[1].tail[1] = HASH /\ NoWhitespaceIn(input[1].tail) )
           => result = Err("NoWhitespaceAfterMaxval")

\* a 1 x 1 image of maxval 255 whose payload is '#', newline, space has been
\* decoded to the pixel (35, 10, 32)
C12_Witness ==
    /\ Len(input) = 1 /\ WellFormed(input[1]) /\ ~Short(input[1])
    /\ input[1].w.val = 1 /\ input[1].h.val = 1 /\ input[1].m.val = 255
    /\ OneSeparator(input[1])
    /\ file_content[PayloadOffset(input[1]) + 1] = HASH
    /\ file_content[PayloadOffset(input[1]) + 2] \in SpecWhitespace
    /\ pc = "return"
    /\ PayloadStartsAfterSeparator(input[1])
    /\ images[1].data[1] = Pixel(35, 10, 32, 0)

\* "P6 1 1 255#c" and a newline, with its payload, has returned MaxvalIsNotAU16
C12_HashWitness ==
    /\ pc = "done" /\ Len(input) = 1 /\ MaxvalWritten(input[1])
    /\ input[1].m = Hash(255, <<99>>) /\ input[1].stop = 10
    /\ result = Err("MaxvalIsNotAU16")

====
